---------------------------- MODULE Spec2Model ----------------------------
(* Verification model of wheval/noblocks, src/app/components/index.ts:     *)
(* the network registry (fetchSupportedTokens, getGatewayContractAddress,  *)
(* getExplorerLink), the balance aggregator (fetchWalletBalance), the      *)
(* payload encryptor (publicKeyEncrypt), shortenAddress and                *)
(* generateTimeBasedNonce.                                                 *)
(*                                                                         *)
(* JavaScript values are records with a "kind" field. Strings that are     *)
(* sliced or concatenated are sequences of one-character strings.          *)
(* Decimal amounts are exact: an amount a stands for the real number       *)
(* SUM a[d] / 10^d over d in Decimals (IEEE rounding is not modelled).     *)
EXTENDS Integers, Sequences, FiniteSets, TLC

VARIABLES
  network,          \* fetchWalletBalance: argument `network`
  address,          \* fetchWalletBalance: argument `address`
  extra,            \* number of additional tokens configured per network
  pc,               \* position of the fetchWalletBalance call
  supportedTokens,  \* local `supportedTokens` (line 252)
  issued,           \* log of publicClient.readContract calls, in call order
  qstate,           \* per token: state of its map callback's promise
  balances,         \* local `balances` (line 256)
  join,             \* the Promise.all promise (line 272)
  result,           \* what the caller of fetchWalletBalance observes
  call,             \* inputs of the pure function under check
  ret               \* outputs of the pure function under check

vars == <<network, address, extra, pc, supportedTokens, issued, qstate,
          balances, join, result, call, ret>>

aggVars == <<network, address, extra, pc, supportedTokens, issued, qstate,
             balances, join, result>>

(***************************************************************************)
(* Bounds of the model                                                     *)
(***************************************************************************)
MaxExtraTokens == 2
MaxRaw == 1
MaxAddrLen == 5
MaxChars == 3
MaxTextLen == 3
MaxCapacity == 4
MaxFracDigits == 3
MaxNonceLength == 4
MaxNow == 40

(***************************************************************************)
(* JavaScript values                                                       *)
(***************************************************************************)
Undefined == [kind |-> "undefined"]
False == [kind |-> "boolean", value |-> FALSE]
Str(s) == [kind |-> "string", value |-> s]
Array(items) == [kind |-> "array", items |-> items]
Inherited(key) == [kind |-> "inherited", key |-> key]
Pending == [kind |-> "pending"]
Return(v) == [kind |-> "return", value |-> v]
Throw(e) == [kind |-> "throw", error |-> e]
None == [kind |-> "none"]

\* Property names every object literal inherits from Object.prototype.
ObjectPrototypeKeys ==
  {"constructor", "toString", "toLocaleString", "valueOf", "hasOwnProperty",
   "isPrototypeOf", "propertyIsEnumerable", "__proto__"}

\* obj[key] on an object literal: own property, else inherited, else undefined.
Lookup(obj, key) ==
  IF key \in DOMAIN obj THEN obj[key]
  ELSE IF key \in ObjectPrototypeKeys THEN Inherited(key)
  ELSE Undefined

\* !v for the values a lookup can yield
Falsy(v) == v.kind = "undefined"

(***************************************************************************)
(* NetworkRegistry                                                         *)
(***************************************************************************)
NetworkNames ==
  {"Base", "Arbitrum One", "BNB Smart Chain", "Polygon", "Scroll", "Optimism"}

\* Names the lookups are exercised with beyond the six keys.
OtherNames ==
  {"", "base", "POLYGON", "Ethereum", "constructor", "toString", "__proto__"}

NetworkInputs == NetworkNames \cup OtherNames

Decimals == {6, 18}

USDC(decimals, addr) ==
  [name |-> "USD Coin", symbol |-> "USDC", decimals |-> decimals,
   address |-> addr, imageUrl |-> "/logos/usdc-logo.svg"]

\* Further tokens a network's list may hold (symbols unique within a list).
ExtraTokens ==
  << [name |-> "Tether USD", symbol |-> "USDT", decimals |-> 18,
      address |-> "0xextra1", imageUrl |-> "/logos/usdt-logo.svg"],
     [name |-> "Dai", symbol |-> "DAI", decimals |-> 6,
      address |-> "0xextra2", imageUrl |-> "/logos/dai-logo.svg"],
     [name |-> "cNGN", symbol |-> "cNGN", decimals |-> 6,
      address |-> "0xextra3", imageUrl |-> "/logos/cngn-logo.svg"],
     [name |-> "Wrapped Ether", symbol |-> "WETH", decimals |-> 18,
      address |-> "0xextra4", imageUrl |-> "/logos/weth-logo.svg"] >>

\* The table `tokens` of fetchSupportedTokens as written in the source.
SourceTokens ==
  [n \in NetworkNames |->
     CASE n = "Base" -> USDC(6, "0x833589fcd6edb6e08f4c7c32d4f71b54bda02913")
       [] n = "Arbitrum One" -> USDC(6, "0xaf88d065e77c8cc2239327c5edb3a432268e5831")
       [] n = "BNB Smart Chain" -> USDC(18, "0x8ac76a51cc950d9822d68b83fe1ad97b32cd580d")
       [] n = "Polygon" -> USDC(6, "0x3c499c542cef5e3811e1192ce70d8cc03d5c3359")
       [] n = "Scroll" -> USDC(6, "0x06eFdBFf2a14a7c8E15944D1F4A48F9F95F663A4")
       [] n = "Optimism" -> USDC(6, "0x0b2C639c533813f4Aa9D7837CAf62653d097Ff85")]

\* The table with x further tokens appended to every list (x = 0: the source).
tokens(x) ==
  [n \in NetworkNames |-> Array(<<SourceTokens[n]>> \o SubSeq(ExtraTokens, 1, x))]

fetchSupportedTokensOf(x, n) == Lookup(tokens(x), n)

fetchSupportedTokens(n) == fetchSupportedTokensOf(0, n)

GatewayAddresses ==
  [n \in NetworkNames |-> Str("0x30f6a8457f8e42371e204a9c103f2bd42341dd0f")]

getGatewayContractAddress(n) == Lookup(GatewayAddresses, n)

ExplorerPrefix(n) ==
  CASE n = "Polygon" -> "https://polygonscan.com/tx/"
    [] n = "BNB Smart Chain" -> "https://bscscan.com/tx/"
    [] n = "Base" -> "https://basescan.org/tx/"
    [] n = "Arbitrum One" -> "https://arbiscan.io/tx/"
    [] n = "Optimism" -> "https://optimistic.etherscan.io/tx/"
    [] n = "Scroll" -> "https://scrollscan.com/tx/"

getExplorerLink(n, txHash) ==
  IF n \in {"Polygon", "BNB Smart Chain", "Base", "Arbitrum One", "Optimism", "Scroll"}
  THEN Str(<<ExplorerPrefix(n), txHash>>)
  ELSE Undefined

(***************************************************************************)
(* BalanceAggregator: fetchWalletBalance                                   *)
(***************************************************************************)
Zero == [d \in Decimals |-> 0]

Add(a, b) == [d \in Decimals |-> a[d] + b[d]]

\* Number(balanceInWei) / Math.pow(10, token.decimals)
Scale(raw, decimals) == [d \in Decimals |-> IF d = decimals THEN raw ELSE 0]

\* Mutant of Reduce: the accumulator is overwritten instead of added to.
Reduce_overwrite(values) ==
  IF values = <<>> THEN Zero ELSE values[Len(values)]

\* tokenBalances.reduce((acc, curr) => acc + curr, 0)
RECURSIVE Reduce(_)
Reduce(values) ==
  IF values = <<>> THEN Zero
  ELSE Add(Reduce(SubSeq(values, 1, Len(values) - 1)), values[Len(values)])

\* balances[symbol] = balance
Store(b, symbol, balance) ==
  [s \in DOMAIN b \cup {symbol} |-> IF s = symbol THEN balance ELSE b[s]]

EmptyBalances == [s \in {} |-> Zero]

\* The readContract call one map callback makes before it suspends.
BalanceQuery(token, addr) ==
  [address |-> token.address, functionName |-> "balanceOf", args |-> <<addr>>]

\* Mutant of BalanceQueries: every query is issued a second time (a retry).
BalanceQueries_retry(items, addr) ==
  [k \in 1..Len(items) |-> BalanceQuery(items[k], addr)]
    \o [k \in 1..Len(items) |-> BalanceQuery(items[k], addr)]

\* supportedTokens.map(async (token) => ...): every callback runs up to its
\* first await, so all queries are issued, in list order, before map returns.
BalanceQueries(items, addr) ==
  [k \in 1..Len(items) |-> BalanceQuery(items[k], addr)]

\* Promise.all over n promises.
PromiseAll(n) ==
  [status |-> IF n = 0 THEN "fulfilled" ELSE "pending",
   values |-> [k \in 1..n |-> Zero], remaining |-> n]

\* Mutant of PromiseAllOnFulfil: the join fulfils with the first result (a race).
PromiseAllOnFulfil_first(j, k, v) ==
  IF j.status # "pending" THEN j
  ELSE [status |-> "fulfilled",
        values |-> [j.values EXCEPT ![k] = v],
        remaining |-> j.remaining - 1]

PromiseAllOnFulfil(j, k, v) ==
  IF j.status # "pending" THEN j
  ELSE [status |-> IF j.remaining = 1 THEN "fulfilled" ELSE "pending",
        values |-> [j.values EXCEPT ![k] = v],
        remaining |-> j.remaining - 1]

\* Mutant of PromiseAllOnReject: a failed query counts as a balance of zero.
PromiseAllOnReject_swallow(j, k) ==
  IF j.status # "pending" THEN j
  ELSE [status |-> IF j.remaining = 1 THEN "fulfilled" ELSE "pending",
        values |-> j.values,
        remaining |-> j.remaining - 1]

\* Mutant of PromiseAllOnReject: the join rejects only once every query settled.
PromiseAllOnReject_waits(j, k) ==
  IF j.status # "pending" THEN j
  ELSE [status |-> IF j.remaining = 1 THEN "rejected" ELSE "pending",
        values |-> j.values,
        remaining |-> j.remaining - 1]

PromiseAllOnReject(j, k) ==
  IF j.status # "pending" THEN j ELSE [j EXCEPT !.status = "rejected"]

\* The continuation of fetchWalletBalance after `await Promise.all(...)`.
AfterAwait(j, b) ==
  IF j.status = "fulfilled"
  THEN Return([total |-> Reduce(j.values), balances |-> b])
  ELSE Throw("QueryFailure")

ZeroResult == Return([total |-> Zero, balances |-> EmptyBalances])

NoJoin == PromiseAll(0)

WalletAddresses == {"0xwallet1", "0xwallet2"}

IsList == supportedTokens.kind = "array"

N == IF IsList THEN Len(supportedTokens.items) ELSE 0

Init ==
  /\ network \in NetworkInputs
  /\ address \in WalletAddresses
  /\ extra \in 0..MaxExtraTokens
  /\ pc = "start"
  /\ supportedTokens = Undefined
  /\ issued = <<>>
  /\ qstate = <<>>
  /\ balances = EmptyBalances
  /\ join = NoJoin
  /\ result = None
  /\ call = None
  /\ ret = None

\* fetchWalletBalance(network, address) up to its first await (lines 252-272).
Call ==
  /\ pc = "start"
  /\ LET st == fetchSupportedTokensOf(extra, network) IN
       /\ supportedTokens' = st
       /\ IF Falsy(st)
          THEN /\ pc' = "returned"
               /\ result' = ZeroResult
               /\ UNCHANGED <<issued, qstate, join>>
          ELSE IF st.kind # "array"
          THEN \* supportedTokens.map is not a function
               /\ pc' = "rejected"
               /\ result' = Throw("TypeError")
               /\ UNCHANGED <<issued, qstate, join>>
          ELSE /\ pc' = "awaiting"
               /\ issued' = BalanceQueries(st.items, address)
               /\ qstate' = [k \in 1..Len(st.items) |-> "pending"]
               /\ join' = PromiseAll(Len(st.items))
               /\ UNCHANGED result
  /\ UNCHANGED <<network, address, extra, balances, call, ret>>

\* The chain client answers query k with `raw`; the callback resumes (266-268).
ReadContractFulfil(k, raw) ==
  /\ k \in 1..Len(qstate)
  /\ qstate[k] = "pending"
  /\ LET token == supportedTokens.items[k]
         balance == Scale(raw, token.decimals) IN
       /\ balances' = Store(balances, token.symbol, balance)
       /\ join' = PromiseAllOnFulfil(join, k, balance)
  /\ qstate' = [qstate EXCEPT ![k] = "fulfilled"]
  /\ UNCHANGED <<network, address, extra, pc, supportedTokens, issued, result,
                 call, ret>>

\* The chain client fails query k; the callback's promise rejects (260).
ReadContractReject(k) ==
  /\ k \in 1..Len(qstate)
  /\ qstate[k] = "pending"
  /\ qstate' = [qstate EXCEPT ![k] = "rejected"]
  /\ join' = PromiseAllOnReject(join, k)
  /\ UNCHANGED <<network, address, extra, pc, supportedTokens, issued, balances,
                 result, call, ret>>

\* The await of line 272 completes; lines 273-275 run, or the call rejects.
Resume ==
  /\ pc = "awaiting"
  /\ join.status # "pending"
  /\ result' = AfterAwait(join, balances)
  /\ pc' = IF join.status = "fulfilled" THEN "returned" ELSE "rejected"
  /\ UNCHANGED <<network, address, extra, supportedTokens, issued, qstate,
                 balances, join, call, ret>>

Next ==
  \/ Call
  \/ \E k \in 1..(1 + MaxExtraTokens), raw \in 0..MaxRaw : ReadContractFulfil(k, raw)
  \/ \E k \in 1..(1 + MaxExtraTokens) : ReadContractReject(k)
  \/ Resume

Spec == Init /\ [][Next]_vars

\* The JavaScript job queue runs every queued continuation.
LiveSpec == Spec /\ WF_vars(Call) /\ WF_vars(Resume)

(***************************************************************************)
(* Pure functions: each specification draws the inputs in its initial      *)
(* state and applies the function; the aggregator stays idle.              *)
(***************************************************************************)
AggIdle ==
  /\ network = ""
  /\ address = "0xwallet1"
  /\ extra = 0
  /\ pc = "idle"
  /\ supportedTokens = Undefined
  /\ issued = <<>>
  /\ qstate = <<>>
  /\ balances = EmptyBalances
  /\ join = NoJoin
  /\ result = None

\* All sequences over `chars` of length at most n.
Strings(chars, n) == UNION {[1..m -> chars] : m \in 0..n}

Min(a, b) == IF a < b THEN a ELSE b

Max(a, b) == IF a > b THEN a ELSE b

(***************************************************************************)
(* NetworkRegistry lookups                                                 *)
(***************************************************************************)
TxHashes == {"0xabc", "0xdef"}

RegistryFns == {"fetchSupportedTokens", "getGatewayContractAddress", "getExplorerLink"}

InitRegistry ==
  /\ AggIdle
  /\ call \in [network : NetworkInputs, txHash : TxHashes]
  /\ ret = [f \in RegistryFns |-> Pending]

CallFetchSupportedTokens ==
  /\ ret["fetchSupportedTokens"] = Pending
  /\ ret' = [ret EXCEPT !["fetchSupportedTokens"] =
               Return(fetchSupportedTokens(call.network))]
  /\ UNCHANGED <<aggVars, call>>

CallGetGatewayContractAddress ==
  /\ ret["getGatewayContractAddress"] = Pending
  /\ ret' = [ret EXCEPT !["getGatewayContractAddress"] =
               Return(getGatewayContractAddress(call.network))]
  /\ UNCHANGED <<aggVars, call>>

CallGetExplorerLink ==
  /\ ret["getExplorerLink"] = Pending
  /\ ret' = [ret EXCEPT !["getExplorerLink"] =
               Return(getExplorerLink(call.network, call.txHash))]
  /\ UNCHANGED <<aggVars, call>>

NextRegistry ==
  \/ CallFetchSupportedTokens
  \/ CallGetGatewayContractAddress
  \/ CallGetExplorerLink

SpecRegistry == InitRegistry /\ [][NextRegistry]_vars

\* C4: for every network name that is not exactly one of the six enumerated
\* names (names differing in case and names of inherited object properties
\* included), fetchSupportedTokens, getGatewayContractAddress and
\* getExplorerLink each return an absent value and never throw.
C4_UnknownNetworkAbsent ==
  call.network \notin NetworkNames =>
    \A f \in RegistryFns : ret[f] \in {Pending, Return(Undefined)}

(***************************************************************************)
(* shortenAddress                                                          *)
(***************************************************************************)
AddrChars == {"0", "x"}

\* A relative index of String.prototype.slice, clamped to 0..len.
SliceIndex(i, len) == IF i < 0 THEN Max(len + i, 0) ELSE Min(i, len)

\* s.slice(b, e)
Slice(s, b, e) ==
  LET from == SliceIndex(b, Len(s))
      to == SliceIndex(e, Len(s)) IN
    IF from >= to THEN <<>> ELSE SubSeq(s, from + 1, to)

Ellipsis == <<".", ".", ".">>

\* address.slice(-endChars): -0 is 0, so slice(-0) is the whole string.
shortenAddress(addr, startChars, endChars) ==
  IF Len(addr) <= startChars + endChars THEN addr
  ELSE Slice(addr, 0, startChars) \o Ellipsis \o Slice(addr, -endChars, Len(addr))

InitShorten ==
  /\ AggIdle
  /\ call \in [address : Strings(AddrChars, MaxAddrLen),
               startChars : 0..MaxChars, endChars : 0..MaxChars]
  /\ ret = Pending

CallShortenAddress ==
  /\ ret = Pending
  /\ ret' = Return(shortenAddress(call.address, call.startChars, call.endChars))
  /\ UNCHANGED <<aggVars, call>>

NextShorten == CallShortenAddress

SpecShorten == InitShorten /\ [][NextShorten]_vars

\* C8: for every address and all non-negative startChars and endChars
\* (endChars = 0 included), shortenAddress returns the address unchanged when
\* its length <= startChars + endChars, and otherwise exactly the first
\* startChars characters, then "...", then the last endChars characters.
C8_ShortenAddress ==
  ret # Pending =>
    LET a == call.address
        first == SubSeq(a, 1, call.startChars)
        last == SubSeq(a, Len(a) - call.endChars + 1, Len(a)) IN
      ret = Return(IF Len(a) <= call.startChars + call.endChars THEN a
                   ELSE first \o Ellipsis \o last)

(***************************************************************************)
(* generateTimeBasedNonce                                                  *)
(***************************************************************************)
DefaultLength == 16

Base36Digits ==
  <<"0", "1", "2", "3", "4", "5", "6", "7", "8", "9", "a", "b", "c", "d", "e",
    "f", "g", "h", "i", "j", "k", "l", "m", "n", "o", "p", "q", "r", "s", "t",
    "u", "v", "w", "x", "y", "z">>

\* n.toString(36) for a non-negative integer n
RECURSIVE ToString36(_)
ToString36(n) ==
  IF n < 36 THEN <<Base36Digits[n + 1]>>
  ELSE ToString36(n \div 36) \o <<Base36Digits[(n % 36) + 1]>>

\* s.substring(a, b): both indices clamped to 0..Len(s), swapped if a > b.
Substring(s, a, b) ==
  LET ca == Min(Max(a, 0), Len(s))
      cb == Min(Max(b, 0), Len(s)) IN
    SubSeq(s, Min(ca, cb) + 1, Max(ca, cb))

FracChars == {"7", "q"}

\* Math.random().toString(36): "0" for 0, else "0." and the fraction's digits,
\* whose number depends on the double drawn.
RandomStrings ==
  {<<"0">>} \cup
  {<<"0", ".">> \o f : f \in Strings(FracChars, MaxFracDigits) \ {<<>>}}

\* The destructured option `length = 16`.
LengthOptions ==
  {[given |-> FALSE, value |-> 0]} \cup
  {[given |-> TRUE, value |-> n] : n \in 0..MaxNonceLength}

LengthOf(opt) == IF opt.given THEN opt.value ELSE DefaultLength

generateTimeBasedNonce(opt, now, random) ==
  LET length == LengthOf(opt)
      timeComponent == ToString36(now)
      randomComponent == Substring(random, 2, 2 + length) IN
    timeComponent \o randomComponent

InitNonce ==
  /\ AggIdle
  /\ call \in [length : LengthOptions, now : 0..MaxNow, random : RandomStrings]
  /\ ret = Pending

CallGenerateTimeBasedNonce ==
  /\ ret = Pending
  /\ ret' = Return(generateTimeBasedNonce(call.length, call.now, call.random))
  /\ UNCHANGED <<aggVars, call>>

NextNonce == CallGenerateTimeBasedNonce

SpecNonce == InitNonce /\ [][NextNonce]_vars

Base36Chars == {Base36Digits[i] : i \in 1..Len(Base36Digits)}

\* C9: for every requested length (default 16) the nonce is the base-36
\* encoding of the current timestamp followed by a random component of
\* exactly the requested number of base-36 characters.
C9_NonceShape ==
  ret # Pending =>
    LET t == ToString36(call.now)
        want == IF call.length.given THEN call.length.value ELSE 16
        v == ret.value IN
      /\ Len(v) = Len(t) + want
      /\ SubSeq(v, 1, Len(t)) = t
      /\ \A i \in (Len(t) + 1)..Len(v) : v[i] \in Base36Chars

(***************************************************************************)
(* publicKeyEncrypt                                                        *)
(***************************************************************************)
TextChars == {"a", "b"}

\* `data` arguments: strings, and undefined (which has no JSON text).
DataValues == {Undefined} \cup {Str(s) : s \in Strings(TextChars, MaxTextLen)}

\* Public keys: a PEM that does not parse, or a key that takes up to
\* `capacity` characters of plaintext.
Keys ==
  {[valid |-> FALSE, capacity |-> 0]} \cup
  {[valid |-> TRUE, capacity |-> c] : c \in 0..MaxCapacity}

\* JSON.stringify(data)
JSON_stringify(d) ==
  IF d.kind = "string" THEN Str(<<"\"">> \o d.value \o <<"\"">>) ELSE Undefined

\* encrypt.encrypt(text) of the JSEncrypt library: the base64 ciphertext, or
\* false when the RSA primitive cannot encrypt.
JSEncrypt_encrypt(key, text) ==
  IF text.kind # "string" \/ ~key.valid THEN False
  ELSE IF Len(text.value) > key.capacity THEN False
  ELSE Str(<<"rsa:">> \o text.value)

\* v === false
IsFalse(v) == v.kind = "boolean" /\ v.value = FALSE

\* Mutant of publicKeyEncrypt: the result of the primitive is returned unchecked.
publicKeyEncrypt_unchecked(data, publicKeyPEM) ==
  Return(JSEncrypt_encrypt(publicKeyPEM, JSON_stringify(data)))

publicKeyEncrypt(data, publicKeyPEM) ==
  LET encrypted == JSEncrypt_encrypt(publicKeyPEM, JSON_stringify(data)) IN
    IF IsFalse(encrypted) THEN Throw("Failed to encrypt data")
    ELSE Return(encrypted)

InitEncrypt ==
  /\ AggIdle
  /\ call \in [data : DataValues, key : Keys]
  /\ ret = Pending

CallPublicKeyEncrypt ==
  /\ ret = Pending
  /\ ret' = publicKeyEncrypt(call.data, call.key)
  /\ UNCHANGED <<aggVars, call>>

NextEncrypt == CallPublicKeyEncrypt

SpecEncrypt == InitEncrypt /\ [][NextEncrypt]_vars

CannotEncrypt ==
  \/ ~call.key.valid
  \/ call.data.kind # "string"
  \/ Len(call.data.value) + 2 > call.key.capacity

\* C7: publicKeyEncrypt returns only a ciphertext string the RSA primitive
\* produced; whenever the primitive cannot encrypt (malformed key, or JSON
\* text longer than the key's capacity) the call throws the encryption
\* failure and returns nothing (no truncated, empty or non-string value).
C7_EncryptOrThrow ==
  ret # Pending =>
    /\ CannotEncrypt => ret = Throw("Failed to encrypt data")
    /\ ret.kind = "return" =>
         /\ ~CannotEncrypt
         /\ ret.value.kind = "string"
         /\ ret.value.value = <<"rsa:", "\"">> \o call.data.value \o <<"\"">>

\* C7 witness: a well-formed key and a JSON text beyond its capacity: thrown.
C7_Witness ==
  /\ ret = Throw("Failed to encrypt data")
  /\ call.key.valid
  /\ call.data.kind = "string"
  /\ Len(call.data.value) + 2 > call.key.capacity

(***************************************************************************)
(* Properties of fetchWalletBalance                                        *)
(***************************************************************************)
AnyRejected == \E k \in 1..Len(qstate) : qstate[k] = "rejected"

AnyPending == \E k \in 1..Len(qstate) : qstate[k] = "pending"

AllFulfilled == IsList /\ \A k \in 1..Len(qstate) : qstate[k] = "fulfilled"

RECURSIVE SumValues(_)
SumValues(b) ==
  IF DOMAIN b = {} THEN Zero
  ELSE LET s == CHOOSE x \in DOMAIN b : TRUE IN
         Add(b[s], SumValues([t \in DOMAIN b \ {s} |-> b[t]]))

\* C1: once at least one per-token query has failed, the call never returns a
\* BalanceResult (neither a total nor a partial balances mapping); when the
\* call has completed, it has completed by throwing.
C1_AllOrNothing ==
  AnyRejected =>
    /\ pc # "returned"
    /\ result.kind # "return"
    /\ (pc = "rejected" => result = Throw("QueryFailure"))

\* C1 witness: the call failed although some balances had already been stored.
C1_Witness ==
  /\ pc = "rejected"
  /\ AnyRejected
  /\ result.kind = "throw"
  /\ DOMAIN balances # {}

\* C2: every BalanceResult returned has total = the sum of the values of its
\* balances mapping, for every token list and every completion order.
C2_TotalIsSum ==
  result.kind = "return" =>
    result.value.total = SumValues(result.value.balances)

\* C2 witness: a result over at least two tokens with a non-zero total.
C2_Witness ==
  /\ result.kind = "return"
  /\ N >= 2
  /\ Cardinality(DOMAIN result.value.balances) = N
  /\ \A d \in Decimals : result.value.total[d] > 0

\* C3: for every network name that is not one of the six enumerated names,
\* the call returns the zero-valued BalanceResult without issuing any query
\* and without failing.
C3_UnsupportedReturnsZero ==
  (network \notin NetworkNames /\ pc # "start") =>
    /\ pc = "returned"
    /\ result = ZeroResult
    /\ issued = <<>>

\* C5: for a supported network the queries issued are exactly one
\* balanceOf(address) per token of the list, each to that token's contract
\* address, all issued by the time the call first awaits, and none is ever
\* issued again, whether queries succeed or fail.
C5_OneQueryPerToken ==
  (pc # "start" /\ IsList) =>
    /\ Len(issued) = Len(supportedTokens.items)
    /\ \A k \in 1..Len(issued) :
         /\ issued[k].address = supportedTokens.items[k].address
         /\ issued[k].functionName = "balanceOf"
         /\ issued[k].args = <<address>>

\* C5 witness: a call over several tokens in which a query failed and another
\* succeeded, and the call has completed.
C5_Witness ==
  /\ pc = "rejected"
  /\ N >= 2
  /\ AnyRejected
  /\ \E k \in 1..Len(qstate) : qstate[k] = "fulfilled"
  /\ Len(issued) = N

C6_Safe ==
  /\ (result.kind = "return" /\ IsList) => AllFulfilled
  /\ (AnyPending /\ ~AnyRejected) => (pc = "awaiting" /\ result = None)

\* C6: the call returns a BalanceResult only after every per-token query has
\* resolved; while a query is unsettled and none has failed the call has not
\* completed; and once every query has resolved the call eventually returns.
C6_Barrier ==
  /\ []C6_Safe
  /\ (AllFulfilled ~> (pc = "returned" /\ result.kind = "return"))

\* C6 witness: a call over several tokens has returned.
C6_Witness ==
  /\ pc = "returned"
  /\ N >= 2
  /\ AllFulfilled

\* C10: as soon as one per-token query fails the join is rejected and the call
\* fails without waiting for the queries still pending; queries completing
\* afterwards change neither the join nor the outcome the caller saw.
C10_FailFast ==
  /\ [](AnyRejected => (join.status = "rejected" /\ pc \in {"awaiting", "rejected"}))
  /\ [][(join.status = "rejected" => join' = join)
        /\ (pc = "rejected" => (pc' = "rejected" /\ result' = result))]_vars
  /\ (AnyRejected ~> (pc = "rejected" /\ result = Throw("QueryFailure")))

\* C10 witness: the call has failed while another query is still pending.
C10_Witness ==
  /\ pc = "rejected"
  /\ AnyRejected
  /\ AnyPending

=============================================================================
